---- MODULE Spec2Model ----
(***************************************************************************)
(* The audit ledger of backend/audit/init_.py: the module globals          *)
(* AUDIT_LOG and AUDIT_SEQ, the hash function _hash_entry, the append path *)
(* append_audit and the read path audit_log.  A ledger is one loaded copy  *)
(* of the module (one process); callers are the threads that run its       *)
(* handlers.  append_audit takes no lock, so a caller's steps are the      *)
(* statements of its body and any other caller may run between them.       *)
(***************************************************************************)
EXTENDS Integers, Sequences, FiniteSets, TLC

\* ------------------------------------------------------------------ bounds
\* Calls of append_audit started in one run of concurrent callers.
MaxCalls == 3
\* Calls started in one run of non-overlapping calls on one ledger.
MaxSeqCalls == 4
\* Calls started on each of two independent ledgers in one run.
MaxDetCalls == 2
\* Largest value the wall clock reaches in one run.
MaxClock == 1

\* The threads that may call into a ledger.
Callers == {"c1", "c2"}
\* The independent copies of the module: "A" is the ledger under concurrent
\* load, "B" is a second, independent one.
Ledgers == {"A", "B"}

\* ------------------------------------------------------------------ values
\* A Python str value.  Every value held in a dict is a tuple, so that a
\* scalar, a digest and the empty string compare without a type clash:
\* "" is <<>>, a scalar s is <<s>>, a digest is <<"sha256", raw>>.
Scalar(s) == <<s>>
EmptyStr == <<>>

\* A Python dict is insertion-ordered: a sequence of <<key, value>> items
\* with distinct keys.
DictHas(d, k) == \E i \in 1..Len(d) : d[i][1] = k
DictIndex(d, k) == CHOOSE i \in 1..Len(d) : d[i][1] = k
DictKeys(d) == {d[i][1] : i \in 1..Len(d)}
\* d.get(k, default)
DictGet(d, k, default) == IF DictHas(d, k) THEN d[DictIndex(d, k)][2] ELSE default
\* d[k] = v: an existing key keeps its position, a new key goes last.
DictSet(d, k, v) ==
    IF DictHas(d, k) THEN [d EXCEPT ![DictIndex(d, k)] = <<k, v>>]
    ELSE Append(d, <<k, v>>)
\* list(d.values())
DictValues(d) == [i \in 1..Len(d) |-> d[i][2]]
\* Python's d1 == d2 on dicts: the same keys with the same values, whatever
\* the insertion order.
DictEq(d1, d2) ==
    /\ DictKeys(d1) = DictKeys(d2)
    /\ \A k \in DictKeys(d1) : DictGet(d1, k, <<>>) = DictGet(d2, k, <<>>)
\* d without the keys ks (the items keep their order).
DictWithout(d, ks) == SelectSeq(d, LAMBDA it : it[1] \notin ks)

\* The payloads callers submit.  PayloadRev is PayloadFwd with its keys
\* inserted in the other order; PayloadClash has a key named like one of
\* the ledger's own fields.
PayloadFwd == << <<"action", Scalar("approve")>>, <<"resource", Scalar("r1")>> >>
PayloadRev == << <<"resource", Scalar("r1")>>, <<"action", Scalar("approve")>> >>
PayloadClash == << <<"action", Scalar("deny")>>, <<"hash", Scalar("x")>> >>
Payloads == {PayloadFwd, PayloadRev, PayloadClash}

\* A value that cannot be serialized (a set, say): str() still renders it.
SetValue == <<"object", "set", "{1}">>
IsSerializable(v) == v # SetValue
\* A payload with such a value, and a payload that is no mapping at all: the
\* list ["approve"], the sequence of its items.
PayloadObject == << <<"action", Scalar("approve")>>, <<"when", SetValue>> >>
PayloadList == << <<Scalar("approve")>> >>
\* The items of a mapping are key-value pairs.
IsMapping(entry) == \A i \in 1..Len(entry) : Len(entry[i]) = 2
\* A payload that does not clash in its first key with the ledger's hash
\* but has a key named prev_hash.
PayloadClashPrev == << <<"prev_hash", Scalar("y")>>, <<"action", Scalar("deny")>> >>

\* ------------------------------------------------------------------ state
VARIABLES
    AUDIT_LOG,   \* per ledger: the dict int -> stored entry
    AUDIT_SEQ,   \* per ledger: the next sequence number
    now,         \* the wall clock, what time.time() returns
    pc,          \* per caller: the statement of append_audit it is at
    frame,       \* per caller: the locals of its running call
    returned,    \* per ledger: the calls that returned, in return order
    calls,       \* per ledger: calls started so far
    resp,        \* the last response of a read path
    tampered,    \* the stored field changed behind the ledger's back, if any
    APPROVALS,   \* approvals: the dict approval id -> approval
    apc,         \* per caller: the statement of the approvals handler it is at
    aframe,      \* per caller: the locals of its running approvals handler
    aresp,       \* the last response of an approvals handler
    tribes,      \* tribal_core: the rows of the tribes table, in insertion order
    sess,        \* tribal_core: per caller, the handler it runs and its db session
    seedResp,    \* tribal_core: the last response of the tribes endpoints
    creds,       \* auth: per user, the stored password hash
    authResp,    \* auth: the last result of a password check
    userRows,    \* main.py: the rows of the users table, by user id
    memberResp,  \* main.py: the status of the last membership response
    person_names,\* tribal_core: the rows of the person_names table, in id order
    nameResp,    \* tribal_core: the status of the last person-names response
    events,      \* tribal_core: the rows of the events table, in id order
    eventResp,   \* tribal_core: the status of the last events response
    pubReq       \* main: each caller's request to a public tribe endpoint

\* The state of the audit ledger.
ledgerVars == <<AUDIT_LOG, AUDIT_SEQ, now, pc, frame, returned, calls, resp, tampered>>
\* The state of the other modules, which the ledger's code never touches.
others == <<APPROVALS, apc, aframe, aresp, tribes, sess, seedResp, creds, authResp,
           userRows,
           memberResp,
           person_names,
           nameResp,
           events,
           eventResp,
           pubReq>>
\* The state of the approvals workflow, of the tribes table, of the
\* credentials and of the memberships.
memberVars == <<userRows, memberResp>>
nameVars == <<person_names, nameResp>>
eventVars == <<events, eventResp>>
apprVars == <<APPROVALS, apc, aframe, aresp>>
tribeVars == <<tribes, sess, seedResp>>
authVars == <<creds, authResp>>

vars == <<AUDIT_LOG, AUDIT_SEQ, now, pc, frame, returned, calls, resp, tampered,
          APPROVALS, apc, aframe, aresp, tribes, sess, seedResp, creds, authResp,
          userRows,
          memberResp,
          person_names,
          nameResp,
          events,
          eventResp,
          pubReq>>

\* ------------------------------------------------------------------ hashing
\* str(entry): the items in insertion order, each rendered key: value.
\* (For a list: its items in order.)
Str(entry) ==
    IF IsMapping(entry)
    THEN [i \in 1..Len(entry) |-> <<entry[i][1], ":", entry[i][2]>>]
    ELSE [i \in 1..Len(entry) |-> <<entry[i][1]>>]

\* hashlib.sha256(raw.encode()).hexdigest(), collision-free.
Sha256(raw) == <<"sha256", raw>>

\* _hash_entry's body at clock reading t: prev_hash, then str(entry), then
\* str(t).  prev_hash is "" or 64 hex digits, str(entry) is braced and str(t)
\* has no brace, so the concatenation determines its three parts.
HashAt(prev_hash, entry, t) == Sha256(<<prev_hash, Str(entry), t>>)

\* _hash_entry(prev_hash, entry): samples the wall clock itself.
_hash_entry(prev_hash, entry) == HashAt(prev_hash, entry, now)

\* ------------------------------------------------------------------ append
NoFrame == [ledger |-> "A", entry |-> <<>>, prev_hash |-> EmptyStr,
            h |-> EmptyStr, t |-> -1, key |-> -1, tmp |-> -1]

\* No tribes handler running: no session, nothing pending.
NoSession == [op |-> "none", i |-> 0, pending |-> <<>>, created |-> 0, id |-> 0]
\* The users whose credentials are kept.
Users == {"u1", "u2"}
\* tribe_id = None.
NoTribe == 0
\* A users row as provisioned: u2 is the admin, the others are members; no
\* tribe chosen, not verified.  approved_at remembers the tribe_id values
\* the user had when admin_approve_membership was called for them.
NewUser(u) ==
    [role |-> IF u = "u2" THEN "admin" ELSE "member",
     tribe_id |-> NoTribe, tribal_id_number |-> "None", is_verified |-> FALSE,
     approved_at |-> {}]
\* No password hash stored yet, no approvals handler running.
\* A caller with no request to a public tribe endpoint.
NoPubReq == [pc |-> "idle", tribe_id |-> 0, section |-> "", status |-> 0, records |-> <<>>]
NoCred == <<>>
\* (was: the status the approval had when decide fetched it.)
NoAFrame == [op |-> "none", aid |-> 0, d |-> <<>>, dec |-> <<>>,
             orphan |-> FALSE, appr |-> <<>>, was |-> "none"]

Init ==
    /\ pubReq = [c \in Callers |-> NoPubReq]
    /\ eventResp = 0
    /\ events = <<>>
    /\ nameResp = 0
    /\ person_names = <<>>
    /\ memberResp = 0
    /\ userRows = [u \in Users |-> NewUser(u)]
    /\ APPROVALS = <<>>
    /\ apc = [c \in Callers |-> "idle"]
    /\ aframe = [c \in Callers |-> NoAFrame]
    /\ aresp = [code |-> 0]
    /\ tribes = <<>>
    /\ sess = [c \in Callers |-> NoSession]
    /\ seedResp = [op |-> "none"]
    /\ creds = [u \in Users |-> NoCred]
    /\ authResp = [op |-> "none"]
    /\ AUDIT_LOG = [L \in Ledgers |-> <<>>]
    /\ AUDIT_SEQ = [L \in Ledgers |-> 0]
    /\ now = 0
    /\ pc = [c \in Callers |-> "idle"]
    /\ frame = [c \in Callers |-> NoFrame]
    /\ returned = [L \in Ledgers |-> <<>>]
    /\ calls = [L \in Ledgers |-> 0]
    /\ resp = [op |-> "none"]
    /\ tampered = [key |-> -1, field |-> "none"]

\* A caller on ledger L enters append_audit(entry).
Call(c, L, entry) ==
    /\ pc[c] = "idle"
    /\ calls' = [calls EXCEPT ![L] = @ + 1]
    /\ pc' = [pc EXCEPT ![c] = "l16"]
    /\ frame' = [frame EXCEPT ![c] =
                    [NoFrame EXCEPT !.ledger = L, !.entry = entry]]
    /\ UNCHANGED <<AUDIT_LOG, AUDIT_SEQ, now, returned, resp, tampered, others>>

\* An append that checks the entry at the head before it links to it, and
\* raises when a forged value is stored there.
ReadHeadChecking(c) ==
    /\ pc[c] = "l16"
    /\ LET L == frame[c].ledger
           last == DictGet(AUDIT_LOG[L], AUDIT_SEQ[L] - 1, <<>>)
       IN IF \E i \in 1..Len(last) : last[i][2] = <<"forged">>
          THEN /\ pc' = [pc EXCEPT ![c] = "raised"]
               /\ UNCHANGED frame
          ELSE /\ frame' = [frame EXCEPT ![c].prev_hash = DictGet(last, "hash", EmptyStr)]
               /\ pc' = [pc EXCEPT ![c] = "l17"]
    /\ UNCHANGED <<AUDIT_LOG, AUDIT_SEQ, now, returned, calls, resp, tampered, others>>

\* prev_hash = AUDIT_LOG.get(AUDIT_SEQ - 1, {}).get("hash", "")
ReadHead(c) ==
    /\ pc[c] = "l16"
    /\ LET L == frame[c].ledger
           last == DictGet(AUDIT_LOG[L], AUDIT_SEQ[L] - 1, <<>>)
       IN frame' = [frame EXCEPT ![c].prev_hash = DictGet(last, "hash", EmptyStr)]
    /\ pc' = [pc EXCEPT ![c] = "l17"]
    /\ UNCHANGED <<AUDIT_LOG, AUDIT_SEQ, now, returned, calls, resp, tampered, others>>

\* A hash that mixes in a value of the running process (such as the salted
\* builtin hash() or id(entry)): it differs from one ledger to the other.
ComputeHashSalted(c) ==
    /\ pc[c] = "l17"
    /\ frame' = [frame EXCEPT
            ![c].h = Sha256(<<frame[c].prev_hash, Str(frame[c].entry), now,
                              frame[c].ledger>>),
            ![c].t = now]
    /\ pc' = [pc EXCEPT ![c] = "l18"]
    /\ UNCHANGED <<AUDIT_LOG, AUDIT_SEQ, now, returned, calls, resp, tampered, others>>

\* h = _hash_entry(prev_hash, entry)
ComputeHash(c) ==
    /\ pc[c] = "l17"
    /\ frame' = [frame EXCEPT ![c].h = _hash_entry(frame[c].prev_hash, frame[c].entry),
                              ![c].t = now]
    /\ pc' = [pc EXCEPT ![c] = "l18"]
    /\ UNCHANGED <<AUDIT_LOG, AUDIT_SEQ, now, returned, calls, resp, tampered, others>>

\* {**entry, "hash": h, "prev_hash": prev_hash}
StoredEntry(entry, h, prev_hash) ==
    DictSet(DictSet(entry, "hash", h), "prev_hash", prev_hash)

\* AUDIT_LOG[AUDIT_SEQ] = {**entry, "hash": h, "prev_hash": prev_hash}
\* (**entry raises TypeError when entry is not a mapping: see WriteRaises.)
WriteEntry(c) ==
    /\ pc[c] = "l18"
    /\ IsMapping(frame[c].entry)
    /\ LET L == frame[c].ledger
           f == frame[c]
       IN /\ AUDIT_LOG' = [AUDIT_LOG EXCEPT ![L] =
                 DictSet(@, AUDIT_SEQ[L], StoredEntry(f.entry, f.h, f.prev_hash))]
          /\ frame' = [frame EXCEPT ![c].key = AUDIT_SEQ[L]]
    /\ pc' = [pc EXCEPT ![c] = "l19"]
    /\ UNCHANGED <<AUDIT_SEQ, now, returned, calls, resp, tampered, others>>

\* The head is advanced although the write raised (the increment placed
\* before the store, or in a finally block).
WriteRaisesAdvancing(c) ==
    /\ pc[c] = "l18"
    /\ pc' = [pc EXCEPT ![c] = "raised"]
    /\ AUDIT_SEQ' = [AUDIT_SEQ EXCEPT ![frame[c].ledger] = @ + 1]
    /\ UNCHANGED <<AUDIT_LOG, now, frame, returned, calls, resp, tampered, others>>

\* The statement of line 18 raises (the entry cannot be built or stored):
\* the exception leaves append_audit, nothing after line 18 runs.
WriteRaises(c) ==
    /\ pc[c] = "l18"
    /\ pc' = [pc EXCEPT ![c] = "raised"]
    /\ UNCHANGED <<AUDIT_LOG, AUDIT_SEQ, now, frame, returned, calls, resp, tampered, others>>

\* AUDIT_SEQ += 1, the load of the global.
LoadSeq(c) ==
    /\ pc[c] = "l19"
    /\ frame' = [frame EXCEPT ![c].tmp = AUDIT_SEQ[frame[c].ledger]]
    /\ pc' = [pc EXCEPT ![c] = "l19s"]
    /\ UNCHANGED <<AUDIT_LOG, AUDIT_SEQ, now, returned, calls, resp, tampered, others>>

\* A slip in the increment: the head skips a sequence number.
NextSeqSkips(s) == s + 2

\* AUDIT_SEQ += 1, the value stored back.
NextSeq(s) == s + 1

\* AUDIT_SEQ += 1, the store of the global.
StoreSeq(c) ==
    /\ pc[c] = "l19s"
    /\ AUDIT_SEQ' = [AUDIT_SEQ EXCEPT ![frame[c].ledger] = NextSeq(frame[c].tmp)]
    /\ pc' = [pc EXCEPT ![c] = "l20"]
    /\ UNCHANGED <<AUDIT_LOG, now, frame, returned, calls, resp, tampered, others>>

\* return h
Return(c) ==
    /\ pc[c] = "l20"
    /\ returned' = [returned EXCEPT ![frame[c].ledger] =
            Append(@, [entry |-> frame[c].entry, t |-> frame[c].t,
                       h |-> frame[c].h, key |-> frame[c].key])]
    /\ pc' = [pc EXCEPT ![c] = "idle"]
    /\ frame' = [frame EXCEPT ![c] = NoFrame]
    /\ UNCHANGED <<AUDIT_LOG, AUDIT_SEQ, now, calls, resp, tampered, others>>

\* The caller of a call that raised goes on.
Recover(c) ==
    /\ pc[c] = "raised"
    /\ pc' = [pc EXCEPT ![c] = "idle"]
    /\ frame' = [frame EXCEPT ![c] = NoFrame]
    /\ UNCHANGED <<AUDIT_LOG, AUDIT_SEQ, now, returned, calls, resp, tampered, others>>

\* The wall clock advances.
Tick ==
    /\ now < MaxClock
    /\ now' = now + 1
    /\ UNCHANGED <<AUDIT_LOG, AUDIT_SEQ, pc, frame, returned, calls, resp, tampered, others>>

\* ------------------------------------------------------------------ reads
\* A listing that hands out the entries by draining the dict (popitem).
audit_logDraining(L) ==
    /\ resp' = [op |-> "list", ledger |-> L, entries |-> DictValues(AUDIT_LOG[L])]
    /\ AUDIT_LOG' = [AUDIT_LOG EXCEPT ![L] = <<>>]
    /\ UNCHANGED <<AUDIT_SEQ, now, pc, frame, returned, calls, tampered, others>>

\* audit_log(): {"entries": list(AUDIT_LOG.values())}
audit_log(L) ==
    /\ resp' = [op |-> "list", ledger |-> L, entries |-> DictValues(AUDIT_LOG[L])]
    /\ UNCHANGED <<AUDIT_LOG, AUDIT_SEQ, now, pc, frame, returned, calls, tampered, others>>

\* list_audit_events() of audit/router.py, the router the application
\* mounts at /audit: {"events": []}
list_audit_events ==
    /\ resp' = [op |-> "events", ledger |-> "A", entries |-> <<>>]
    /\ UNCHANGED <<AUDIT_LOG, AUDIT_SEQ, now, pc, frame, returned, calls, tampered, others>>

AllIdle == \A c \in Callers : pc[c] = "idle"

\* ------------------------------------------------------------------ verification
\* The genesis value: what line 16 reads as prev_hash on an empty ledger.
Genesis == EmptyStr

\* The ledger's own fields of a stored entry.
OwnKeys == {"hash", "prev_hash"}

\* The payload as it can be read back from a stored entry: the items that
\* are not the ledger's own fields.
PayloadOf(e) == DictWithout(e, OwnKeys)

\* Recomputing the hash of a stored entry from its stored fields, with the
\* hash function of the ledger.
Recomputed(e) == _hash_entry(DictGet(e, "prev_hash", EmptyStr), PayloadOf(e))

\* The checks of one position of the walk.
Missing(log, k) == ~DictHas(log, k)
ExpectedPrev(log, k) ==
    IF k = 0 THEN Genesis ELSE DictGet(DictGet(log, k - 1, <<>>), "hash", EmptyStr)
LinkBroken(log, k) ==
    ~DictHas(DictGet(log, k, <<>>), "prev_hash")
        \/ DictGet(DictGet(log, k, <<>>), "prev_hash", EmptyStr) # ExpectedPrev(log, k)
HashBroken(log, k) ==
    ~DictHas(DictGet(log, k, <<>>), "hash")
        \/ DictGet(DictGet(log, k, <<>>), "hash", EmptyStr) # Recomputed(DictGet(log, k, <<>>))
FailsAt(log, k) == Missing(log, k) \/ LinkBroken(log, k) \/ HashBroken(log, k)

\* verify(from, to): walk the range in increasing sequence order, stop at
\* the first mismatch and report it.
VerifyRange(log, from, to) ==
    IF \E k \in from..to : FailsAt(log, k)
    THEN LET k == CHOOSE j \in from..to :
                     FailsAt(log, j) /\ \A i \in from..(j - 1) : ~FailsAt(log, i)
         IN [op |-> "verify", ok |-> FALSE, sequence |-> k,
             kind |-> IF Missing(log, k) THEN "missing"
                      ELSE IF LinkBroken(log, k) THEN "prev_hash" ELSE "hash_mismatch"]
    ELSE [op |-> "verify", ok |-> TRUE, sequence |-> -1, kind |-> "none"]

\* verify() of the whole ledger L, up to its head.
Verify(L) ==
    /\ resp' = VerifyRange(AUDIT_LOG[L], 0, AUDIT_SEQ[L] - 1)
    /\ UNCHANGED <<AUDIT_LOG, AUDIT_SEQ, now, pc, frame, returned, calls, tampered, others>>

\* The value a tampered field is overwritten with.
Forged == Scalar("forged")

\* Storage is edited behind the ledger's back: one field of the entry at
\* sequence k gets another value.  field is a payload key, "hash" or
\* "prev_hash".
Tamper(L, k, field) ==
    /\ AllIdle
    /\ tampered.key = -1
    /\ DictHas(AUDIT_LOG[L], k)
    /\ DictHas(DictGet(AUDIT_LOG[L], k, <<>>), field)
    /\ AUDIT_LOG' = [AUDIT_LOG EXCEPT ![L] =
            DictSet(@, k, DictSet(DictGet(@, k, <<>>), field, Forged))]
    /\ tampered' = [key |-> k, field |-> field]
    /\ resp' = [op |-> "none"]
    /\ UNCHANGED <<AUDIT_SEQ, now, pc, frame, returned, calls, others>>

\* ------------------------------------------------------------------ specifications
Step(c) ==
    \/ ReadHead(c)
    \/ ComputeHash(c)
    \/ WriteEntry(c)
    \/ WriteRaises(c)
    \/ LoadSeq(c)
    \/ StoreSeq(c)
    \/ Return(c)
    \/ Recover(c)

\* Concurrent callers on one ledger.
Next ==
    \/ \E c \in Callers, entry \in Payloads :
            calls["A"] < MaxCalls /\ Call(c, "A", entry)
    \/ \E c \in Callers : Step(c)
    \/ Tick
    \/ audit_log("A")

Spec == Init /\ [][Next]_vars

\* One call at a time on one ledger: no two calls overlap.
SeqNext ==
    \/ \E c \in Callers, entry \in Payloads :
            AllIdle /\ calls["A"] < MaxSeqCalls /\ Call(c, "A", entry)
    \/ \E c \in Callers : Step(c)
    \/ Tick

SeqSpec == Init /\ [][SeqNext]_vars

\* The payloads whose keys do not clash with the ledger's own fields.
PlainPayloads == {PayloadFwd, PayloadRev}

\* One call at a time, on two independent ledgers.
DetNext ==
    \/ \E c \in Callers, L \in Ledgers, entry \in PlainPayloads :
            AllIdle /\ calls[L] < MaxDetCalls /\ Call(c, L, entry)
    \/ \E c \in Callers : Step(c)
    \/ Tick

DetSpec == Init /\ [][DetNext]_vars

\* One call at a time on one ledger, a verifier, and storage that may be
\* edited once.
TamperNext ==
    \/ \E c \in Callers, entry \in PlainPayloads :
            AllIdle /\ calls["A"] < MaxDetCalls /\ Call(c, "A", entry)
    \/ \E c \in Callers : Step(c)
    \/ Tick
    \/ AllIdle /\ Verify("A")
    \/ \E k \in 0..(MaxDetCalls - 1), field \in {"action", "resource", "hash", "prev_hash"} :
            Tamper("A", k, field)

TamperSpec == Init /\ [][TamperNext]_vars

\* The ledger goes on serving after storage was edited: appends, listings
\* and verifications.
ServeNext ==
    \/ TamperNext
    \/ audit_log("A")

ServeSpec == Init /\ [][ServeNext]_vars

\* One call at a time on one ledger, with payloads of every kind: plain,
\* clashing with the ledger's fields, not serializable, not a mapping.
AllPayloads == {PayloadFwd, PayloadClash, PayloadClashPrev, PayloadObject, PayloadList}
PayloadNext ==
    \/ \E c \in Callers, entry \in AllPayloads :
            AllIdle /\ calls["A"] < MaxDetCalls /\ Call(c, "A", entry)
    \/ \E c \in Callers : Step(c)
    \/ Tick

PayloadSpec == Init /\ [][PayloadNext]_vars

\* One call at a time on one ledger, and the read paths, which may run
\* between any two statements of a call.
ReadNext ==
    \/ \E c \in Callers, entry \in Payloads :
            AllIdle /\ calls["A"] < MaxCalls /\ Call(c, "A", entry)
    \/ \E c \in Callers : Step(c)
    \/ Tick
    \/ audit_log("A")
    \/ list_audit_events
    \/ Verify("A")

ReadSpec == Init /\ [][ReadNext]_vars

\* Concurrent callers on one ledger, with payloads that do not clash with
\* the ledger's own fields.
RaceNext ==
    \/ \E c \in Callers, entry \in PlainPayloads :
            calls["A"] < MaxDetCalls /\ Call(c, "A", entry)
    \/ \E c \in Callers : Step(c)
    \/ Tick

RaceSpec == Init /\ [][RaceNext]_vars

\* One call at a time on one ledger and a verifier; storage is left alone.
VerifyNext ==
    \/ \E c \in Callers, entry \in PlainPayloads :
            AllIdle /\ calls["A"] < MaxSeqCalls /\ Call(c, "A", entry)
    \/ \E c \in Callers : Step(c)
    \/ Tick
    \/ AllIdle /\ Verify("A")

VerifySpec == Init /\ [][VerifyNext]_vars

\* ------------------------------------------------------------------ approvals
\* Drafts created at most (the approval ids handed out are 1..MaxDrafts).
MaxDrafts == 2

\* ApprovalDraft bodies (the payload dict is empty).
Drafts ==
    { [tenant_id |-> "t1", actor_id |-> "u1", action |-> "export", resource |-> "r1",
       payload |-> <<>>],
      [tenant_id |-> "t1", actor_id |-> "u2", action |-> "delete", resource |-> "r2",
       payload |-> <<>>] }

\* ApprovalDecision bodies: decision is any str, reason is Optional[str].
Decisions ==
    { [decision |-> "approve", reason |-> "ok", approver_id |-> "adm1"],
      [decision |-> "deny", reason |-> "None", approver_id |-> "adm2"],
      [decision |-> "maybe", reason |-> "None", approver_id |-> "adm1"] }

\* The value of a key the dict does not have.
Absent == "<absent>"

\* f"appr_{n:06d}": the ids are modelled by their number n, and APPROVALS
\* by the sequence of its values at the ids 1..len(APPROVALS).
ApprovalIds == 1..(MaxDrafts + 1)

\* {"status": "pending", **d.dict()}
PendingApproval(d) ==
    [status |-> "pending", d |-> d, decision_reason |-> Absent, approver_id |-> Absent]

\* POST /approvals/draft
create_draft(c, d) ==
    /\ apc[c] = "idle"
    /\ apc' = [apc EXCEPT ![c] = "a24"]
    /\ aframe' = [aframe EXCEPT ![c] = [NoAFrame EXCEPT !.op = "create", !.d = d]]
    /\ UNCHANGED <<APPROVALS, aresp, ledgerVars, tribeVars, authVars, memberVars, nameVars, eventVars, pubReq>>

\* aid = f"appr_{len(APPROVALS)+1:06d}"
NewId(c) ==
    /\ apc[c] = "a24"
    /\ aframe' = [aframe EXCEPT ![c].aid = Len(APPROVALS) + 1]
    /\ apc' = [apc EXCEPT ![c] = "a25"]
    /\ UNCHANGED <<APPROVALS, aresp, ledgerVars, tribeVars, authVars, memberVars, nameVars, eventVars, pubReq>>

\* A decide call that holds the dict stored at aid (it is past line 30).
HoldsAppr(c, aid) ==
    /\ apc[c] \in {"a35", "a36", "a37", "a38"}
    /\ aframe[c].aid = aid
    /\ ~aframe[c].orphan

\* APPROVALS[aid] = {"status":"pending", **d.dict()}
\* When aid is already a key, the dict stored there is replaced by a new
\* one: a decide call that holds the old dict keeps writing to the old one,
\* which is no longer in APPROVALS.
StoreDraft(c) ==
    /\ apc[c] = "a25"
    /\ LET aid == aframe[c].aid
       IN /\ APPROVALS' =
                 IF aid <= Len(APPROVALS)
                 THEN [APPROVALS EXCEPT ![aid] = PendingApproval(aframe[c].d)]
                 ELSE Append(APPROVALS, PendingApproval(aframe[c].d))
          /\ aframe' = [o \in Callers |->
                 IF o # c /\ HoldsAppr(o, aid)
                 THEN [aframe[o] EXCEPT !.orphan = TRUE, !.appr = APPROVALS[aid]]
                 ELSE aframe[o]]
    /\ apc' = [apc EXCEPT ![c] = "a26"]
    /\ UNCHANGED <<aresp, ledgerVars, tribeVars, authVars, memberVars, nameVars, eventVars, pubReq>>

\* return {"approval_id": aid, "status": "pending"}
ReturnDraft(c) ==
    /\ apc[c] = "a26"
    /\ aresp' = [code |-> 200, caller |-> c, approval_id |-> aframe[c].aid,
                 status |-> "pending"]
    /\ apc' = [apc EXCEPT ![c] = "idle"]
    /\ aframe' = [aframe EXCEPT ![c] = NoAFrame]
    /\ UNCHANGED <<APPROVALS, ledgerVars, tribeVars, authVars, memberVars, nameVars, eventVars, pubReq>>

\* POST /approvals/{approval_id}/decision, lines 30 to 34:
\* appr = APPROVALS.get(approval_id); 404 if not appr; 400 if the decision
\* is not "approve" or "deny".
decide(c, approval_id, dec) ==
    /\ apc[c] = "idle"
    /\ IF approval_id > Len(APPROVALS)
       THEN /\ aresp' = [code |-> 404, caller |-> c, detail |-> "Not found"]
            /\ UNCHANGED <<apc, aframe>>
       ELSE IF dec.decision \notin {"approve", "deny"}
       THEN /\ aresp' = [code |-> 400, caller |-> c, detail |-> "Invalid decision"]
            /\ UNCHANGED <<apc, aframe>>
       ELSE /\ apc' = [apc EXCEPT ![c] = "a35"]
            /\ aframe' = [aframe EXCEPT ![c] =
                  [NoAFrame EXCEPT !.op = "decide", !.aid = approval_id, !.dec = dec,
                                   !.was = APPROVALS[approval_id].status]]
            /\ UNCHANGED aresp
    /\ UNCHANGED <<APPROVALS, ledgerVars, tribeVars, authVars, memberVars, nameVars, eventVars, pubReq>>

\* appr[field] = value, on the dict the call holds: the one in APPROVALS,
\* or the replaced one.
SetField(c, at, to, field, value) ==
    /\ apc[c] = at
    /\ IF aframe[c].orphan
       THEN /\ aframe' = [aframe EXCEPT ![c].appr = [@ EXCEPT ![field] = value]]
            /\ UNCHANGED APPROVALS
       ELSE /\ APPROVALS' = [APPROVALS EXCEPT ![aframe[c].aid] = [@ EXCEPT ![field] = value]]
            /\ UNCHANGED aframe
    /\ apc' = [apc EXCEPT ![c] = to]
    /\ UNCHANGED <<aresp, ledgerVars, tribeVars, authVars, memberVars, nameVars, eventVars, pubReq>>

\* appr["status"] = dec.decision
SetStatus(c) == SetField(c, "a35", "a36", "status", aframe[c].dec.decision)
\* appr["decision_reason"] = dec.reason
SetReason(c) == SetField(c, "a36", "a37", "decision_reason", aframe[c].dec.reason)
\* appr["approver_id"] = dec.approver_id
SetApprover(c) == SetField(c, "a37", "a38", "approver_id", aframe[c].dec.approver_id)

\* return {"approval_id": approval_id, "status": appr["status"]}
ReturnDecision(c) ==
    /\ apc[c] = "a38"
    /\ aresp' = [code |-> 200, caller |-> c, approval_id |-> aframe[c].aid,
                 status |-> IF aframe[c].orphan THEN aframe[c].appr.status
                            ELSE APPROVALS[aframe[c].aid].status]
    /\ apc' = [apc EXCEPT ![c] = "idle"]
    /\ aframe' = [aframe EXCEPT ![c] = NoAFrame]
    /\ UNCHANGED <<APPROVALS, ledgerVars, tribeVars, authVars, memberVars, nameVars, eventVars, pubReq>>

\* The create_draft calls that have not stored their draft yet.
DraftsInFlight == {c \in Callers : apc[c] \in {"a24", "a25"}}

\* The approvals handlers, each in a thread of its own, on the ledger that
\* the process has.
ApprNext ==
    \/ \E c \in Callers, d \in Drafts :
            /\ Len(APPROVALS) + Cardinality(DraftsInFlight) < MaxDrafts
            /\ create_draft(c, d)
    \/ \E c \in Callers : NewId(c) \/ StoreDraft(c) \/ ReturnDraft(c)
    \/ \E c \in Callers, approval_id \in ApprovalIds, dec \in Decisions :
            decide(c, approval_id, dec)
    \/ \E c \in Callers :
            SetStatus(c) \/ SetReason(c) \/ SetApprover(c) \/ ReturnDecision(c)

ApprSpec == Init /\ [][ApprNext]_vars

\* The approvals handlers, one request at a time.
NoHandlerRuns == \A c \in Callers : apc[c] = "idle"
ApprSeqNext ==
    \/ \E c \in Callers, d \in Drafts :
            NoHandlerRuns /\ Len(APPROVALS) < MaxDrafts /\ create_draft(c, d)
    \/ \E c \in Callers : NewId(c) \/ StoreDraft(c) \/ ReturnDraft(c)
    \/ \E c \in Callers, approval_id \in ApprovalIds, dec \in Decisions :
            NoHandlerRuns /\ decide(c, approval_id, dec)
    \/ \E c \in Callers :
            SetStatus(c) \/ SetReason(c) \/ SetApprover(c) \/ ReturnDecision(c)

ApprSeqSpec == Init /\ [][ApprSeqNext]_vars

\* ------------------------------------------------------------------ passwords
\* Longest password drawn, in characters.
MaxPwLen == 2

\* A str is the sequence of its characters, bytes the sequence of its
\* bytes. The characters passwords are made of: a letter and U+0000.
Nul == "NUL"
PwChars == {"a", Nul}
Passwords == UNION {[1..n -> PwChars] : n \in 0..MaxPwLen}

\* os.urandom(16): one of these byte strings.
Salts == { << <<"rnd", 1>> >>, << <<"rnd", 2>> >> }

\* password.encode("utf-8"): one byte per character of the passwords drawn.
EncodeUtf8(str) == [i \in DOMAIN str |-> <<"u8", str[i]>>]

\* The key as HMAC uses it: a key shorter than the block of the hash is
\* padded with zero bytes to the block size, so keys that differ only in
\* trailing zero bytes are the same key. The padded key is represented by
\* the key without its trailing zero bytes (the passwords drawn are shorter
\* than the 64 byte block of SHA-256).
RECURSIVE HmacKey(_)
HmacKey(key) ==
    IF key # <<>> /\ key[Len(key)] = <<"u8", Nul>>
    THEN HmacKey(SubSeq(key, 1, Len(key) - 1))
    ELSE key

\* hashlib.pbkdf2_hmac("sha256", password, salt, _PBKDF_ITERATIONS): 32 bytes
\* that determine the HMAC key and the salt.
pbkdf2_hmac(password, salt) == << <<"pbkdf2", HmacKey(password), salt>> >>

\* bytes.hex(): two hex digits per byte.
Hex(bytes) == [i \in DOMAIN bytes |-> <<"hex", bytes[i]>>]
IsHex(str) == \A i \in DOMAIN str : str[i][1] = "hex"
\* bytes.fromhex(str), for a str IsHex holds of (it raises ValueError
\* otherwise).
FromHex(str) == [i \in DOMAIN str |-> str[i][2]]

Dollar == <<"$">>

\* hash_password(password, salt=None): f"{salt_bytes.hex()}${pwd_hash.hex()}"
hash_password(password, salt_bytes) ==
    Hex(salt_bytes) \o <<Dollar>> \o Hex(pbkdf2_hmac(EncodeUtf8(password), salt_bytes))

\* stored.split("$")
RECURSIVE Split(_)
Split(str) ==
    IF \A i \in DOMAIN str : str[i] # Dollar
    THEN <<str>>
    ELSE LET i == CHOOSE j \in DOMAIN str :
                      str[j] = Dollar /\ \A k \in 1..(j - 1) : str[k] # Dollar
         IN <<SubSeq(str, 1, i - 1)>> \o Split(SubSeq(str, i + 1, Len(str)))

\* Characters of a stored string that are not hex digits: an ASCII letter
\* and a letter outside ASCII.
Letter == <<"chr", <<"z", 0>>>>
NonAscii == <<"chr", <<"e-acute", 0>>>>
IsAscii(str) == \A i \in DOMAIN str : str[i] # NonAscii

\* safe_verify_password(password, stored): "true", "false", or "raises"
\* when bytes.fromhex, which is outside the try, raises ValueError, or when
\* hmac.compare_digest raises TypeError for a str that is not ASCII.
safe_verify_password(password, stored) ==
    LET parts == Split(stored)
    IN IF Len(parts) # 2 THEN "false"
       ELSE IF ~IsHex(parts[1]) THEN "raises"
       ELSE IF ~IsAscii(parts[2]) THEN "raises"
       ELSE IF Hex(pbkdf2_hmac(EncodeUtf8(password), FromHex(parts[1]))) = parts[2]
            THEN "true" ELSE "false"

\* A user's password is set: the hash of it is stored (pw remembers the
\* password the hash was made from).
SetPassword(u, password, salt) ==
    /\ creds' = [creds EXCEPT ![u] = [pw |-> password, stored |-> hash_password(password, salt)]]
    /\ UNCHANGED <<authResp, ledgerVars, apprVars, tribeVars, memberVars, nameVars, eventVars, pubReq>>

\* A password is checked against the stored hash of a user.
CheckPassword(u, password) ==
    /\ creds[u] # NoCred
    /\ authResp' = [op |-> "verify", user |-> u, password |-> password,
                    pw |-> creds[u].pw, stored |-> creds[u].stored,
                    result |-> safe_verify_password(password, creds[u].stored)]
    /\ UNCHANGED <<creds, ledgerVars, apprVars, tribeVars, memberVars, nameVars, eventVars, pubReq>>

AuthNext ==
    \/ \E u \in Users, password \in Passwords, salt \in Salts : SetPassword(u, password, salt)
    \/ \E u \in Users, password \in Passwords : CheckPassword(u, password)

AuthSpec == Init /\ [][AuthNext]_vars

\* Longest stored string drawn, in characters.
MaxStoredLen == 3
\* The stored strings drawn: hex digits of a salt byte, '$' and the two
\* letters, in any order.
StoredChars == {<<"hex", <<"rnd", 1>>>>, Dollar, Letter, NonAscii}
StoredStrings == UNION {[1..n -> StoredChars] : n \in 0..MaxStoredLen}

\* login: safe_verify_password(password, user.password) for the password
\* column of the user found, whatever string it holds.
VerifyStored(password, stored) ==
    /\ authResp' = [op |-> "verify", user |-> "row", password |-> password,
                    pw |-> <<>>, stored |-> stored,
                    result |-> safe_verify_password(password, stored)]
    /\ UNCHANGED <<creds, ledgerVars, apprVars, tribeVars, memberVars, nameVars, eventVars, pubReq>>

StoredNext == \E password \in Passwords, stored \in StoredStrings : VerifyStored(password, stored)

StoredSpec == Init /\ [][StoredNext]_vars

\* ------------------------------------------------------------------ tribes
\* Highest row id handed out.
MaxTribeId == 5

\* wa_tribes: the first three of the list, whose names are all different.
wa_tribes ==
    << [name |-> "Confederated Tribes of the Chehalis Reservation", short_name |-> "Chehalis"],
       [name |-> "Confederated Tribes of the Colville Reservation", short_name |-> "Colville"],
       [name |-> "Cowlitz Indian Tribe", short_name |-> "Cowlitz"] >>

\* The names a request may carry: one of the seeded names and one that is
\* not seeded.
TribeNames == {"Cowlitz Indian Tribe", "Wanapum Band"}

\* db.query(Tribe).filter(Tribe.name == name).first() is not None, on the
\* committed rows (a session does not flush before a query: autoflush=False).
NameExists(name) == \E r \in 1..Len(tribes) : tribes[r].name = name
\* db.get(Tribe, tribe_id) is not None
IdExists(id) == \E r \in 1..Len(tribes) : tribes[r].id = id
\* The rowid SQLite gives the next inserted row.
NextRowId == IF tribes = <<>> THEN 1 ELSE tribes[Len(tribes)].id + 1

\* POST /tribes, up to db.add(tribe)
create_tribe(c, name) ==
    /\ sess[c].op = "none"
    /\ IF NameExists(name)
       THEN /\ seedResp' = [op |-> "create", code |-> 400, inserted |-> 0]
            /\ UNCHANGED sess
       ELSE /\ sess' = [sess EXCEPT ![c] =
                  [NoSession EXCEPT !.op = "create",
                                    !.pending = <<[name |-> name, short_name |-> "None"]>>,
                                    !.created = 1]]
            /\ UNCHANGED seedResp
    /\ UNCHANGED <<tribes, ledgerVars, apprVars, authVars, memberVars, nameVars, eventVars, pubReq>>

\* PATCH /tribes/{tribe_id} with a name, up to db.add(tribe)
update_tribe(c, tribe_id, name) ==
    /\ sess[c].op = "none"
    /\ IF ~IdExists(tribe_id)
       THEN /\ seedResp' = [op |-> "update", code |-> 404, inserted |-> 0]
            /\ UNCHANGED sess
       ELSE IF \E r \in 1..Len(tribes) :
                  tribes[r].id = tribe_id /\ tribes[r].name # name /\ NameExists(name)
       THEN /\ seedResp' = [op |-> "update", code |-> 400, inserted |-> 0]
            /\ UNCHANGED sess
       ELSE /\ sess' = [sess EXCEPT ![c] =
                  [NoSession EXCEPT !.op = "update", !.id = tribe_id,
                                    !.pending = <<[name |-> name, short_name |-> "None"]>>]]
            /\ UNCHANGED seedResp
    /\ UNCHANGED <<tribes, ledgerVars, apprVars, authVars, memberVars, nameVars, eventVars, pubReq>>

\* DELETE /tribes/{tribe_id}
delete_tribe(c, tribe_id) ==
    /\ sess[c].op = "none"
    /\ IF ~IdExists(tribe_id)
       THEN /\ seedResp' = [op |-> "delete", code |-> 404, inserted |-> 0]
            /\ UNCHANGED tribes
       ELSE /\ tribes' = SelectSeq(tribes, LAMBDA row : row.id # tribe_id)
            /\ seedResp' = [op |-> "delete", code |-> 204, inserted |-> 0]
    /\ UNCHANGED <<sess, ledgerVars, apprVars, authVars, memberVars, nameVars, eventVars, pubReq>>

\* POST /dev/seed_wa_all: created = 0, before the loop
seed_washington_tribes(c) ==
    /\ sess[c].op = "none"
    /\ sess' = [sess EXCEPT ![c] = [NoSession EXCEPT !.op = "seed", !.i = 1]]
    /\ UNCHANGED <<tribes, seedResp, ledgerVars, apprVars, authVars, memberVars, nameVars, eventVars, pubReq>>

\* A seeder that adds every tribe of the list, whether or not its name is
\* there already.
SeedLoopUnchecked(c) ==
    /\ sess[c].op = "seed"
    /\ sess[c].i <= Len(wa_tribes)
    /\ sess' = [sess EXCEPT ![c].i = @ + 1,
                            ![c].pending = Append(@, wa_tribes[sess[c].i]),
                            ![c].created = @ + 1]
    /\ UNCHANGED <<tribes, seedResp, ledgerVars, apprVars, authVars, memberVars, nameVars, eventVars, pubReq>>

\* One round of the loop: if no tribe has the name t["name"], db.add(...)
\* and created += 1.
SeedLoop(c) ==
    /\ sess[c].op = "seed"
    /\ sess[c].i <= Len(wa_tribes)
    /\ LET t == wa_tribes[sess[c].i]
       IN sess' = [sess EXCEPT ![c] =
              IF ~NameExists(t.name)
              THEN [@ EXCEPT !.i = @ + 1, !.pending = Append(@, t), !.created = @ + 1]
              ELSE [@ EXCEPT !.i = @ + 1]]
    /\ UNCHANGED <<tribes, seedResp, ledgerVars, apprVars, authVars, memberVars, nameVars, eventVars, pubReq>>

\* The rows of a session's pending inserts, with the ids they get.
Inserted(pending) ==
    [k \in 1..Len(pending) |->
        [id |-> NextRowId + k - 1, name |-> pending[k].name,
         short_name |-> pending[k].short_name]]

\* The unique constraint on tribes.name (unique=True) rejects the flush.
Conflicts(c) ==
    IF sess[c].op = "update"
    THEN \/ ~IdExists(sess[c].id)
         \/ \E r \in 1..Len(tribes) :
                tribes[r].id # sess[c].id /\ tribes[r].name = sess[c].pending[1].name
    ELSE \E k \in 1..Len(sess[c].pending) : NameExists(sess[c].pending[k].name)

\* db.commit() and the return: the pending rows are written in one
\* transaction, or the flush raises and nothing is written (500).
Commit(c) ==
    /\ sess[c].op \in {"create", "update", "seed"}
    /\ sess[c].op = "seed" => sess[c].i > Len(wa_tribes)
    /\ IF Conflicts(c)
       THEN /\ seedResp' = [op |-> sess[c].op, code |-> 500, inserted |-> 0]
            /\ UNCHANGED tribes
       ELSE /\ tribes' =
                  IF sess[c].op = "update"
                  THEN [r \in 1..Len(tribes) |->
                          IF tribes[r].id = sess[c].id
                          THEN [tribes[r] EXCEPT !.name = sess[c].pending[1].name]
                          ELSE tribes[r]]
                  ELSE tribes \o Inserted(sess[c].pending)
            /\ seedResp' = [op |-> sess[c].op,
                            code |-> IF sess[c].op = "update" THEN 200 ELSE 201,
                            inserted |-> sess[c].created]
    /\ sess' = [sess EXCEPT ![c] = NoSession]
    /\ UNCHANGED <<ledgerVars, apprVars, authVars, memberVars, nameVars, eventVars, pubReq>>

\* The row ids the commit of a session needs are within the ids handed out
\* (a commit that updates a row or is rejected needs none).
RowIdsLeft(c) ==
    \/ sess[c].op = "update"
    \/ Conflicts(c)
    \/ NextRowId + Len(sess[c].pending) - 1 <= MaxTribeId
NoSessionOpen == \A c \in Callers : sess[c].op = "none"
TribeIds == 1..MaxTribeId

\* The tribes endpoints, one request at a time.
SeedNext ==
    \/ \E c \in Callers, name \in TribeNames :
            NoSessionOpen /\ create_tribe(c, name)
    \/ \E c \in Callers, id \in TribeIds, name \in TribeNames :
            NoSessionOpen /\ update_tribe(c, id, name)
    \/ \E c \in Callers, id \in TribeIds : NoSessionOpen /\ delete_tribe(c, id)
    \/ \E c \in Callers : NoSessionOpen /\ seed_washington_tribes(c)
    \/ \E c \in Callers : SeedLoop(c)
    \/ \E c \in Callers : RowIdsLeft(c) /\ Commit(c)

SeedSpec == Init /\ [][SeedNext]_vars

\* ------------------------------------------------------------------ memberships
\* The tribes a user can choose, and the user ids a request can name (u9 is
\* no user).
TribeChoices == {1, 2}
IdNumbers == {"None", "T-1"}
UserIds == Users \cup {"u9"}
\* Who sends the request: a signed-in user (request.session["user_id"]) or
\* nobody.
Requesters == Users \cup {"anon"}
notMembers == <<ledgerVars, apprVars, tribeVars, authVars, nameVars, eventVars, pubReq>>

\* require_admin
IsAdmin(req) == req \in Users /\ userRows[req].role \in {"admin", "enrollment"}

\* POST /onboarding/tribe
onboarding_tribe(req, tribe_id, tribal_id_number) ==
    /\ IF req \notin Users
       THEN /\ memberResp' = 401
            /\ UNCHANGED userRows
       ELSE /\ userRows' = [userRows EXCEPT ![req].tribe_id = tribe_id,
                                            ![req].tribal_id_number = tribal_id_number]
            /\ memberResp' = 200
    /\ UNCHANGED notMembers

\* POST /admin/memberships/{user_id}/approve
admin_approve_membership(req, user_id) ==
    /\ IF ~IsAdmin(req)
       THEN /\ memberResp' = 403
            /\ UNCHANGED userRows
       ELSE IF user_id \notin Users
       THEN /\ memberResp' = 404
            /\ UNCHANGED userRows
       ELSE /\ userRows' = [userRows EXCEPT ![user_id].is_verified = TRUE,
                                            ![user_id].approved_at = @ \cup {userRows[user_id].tribe_id}]
            /\ memberResp' = 303
    /\ UNCHANGED notMembers

\* POST /admin/memberships/{user_id}/deny
admin_deny_membership(req, user_id) ==
    /\ IF ~IsAdmin(req)
       THEN /\ memberResp' = 403
            /\ UNCHANGED userRows
       ELSE IF user_id \notin Users
       THEN /\ memberResp' = 404
            /\ UNCHANGED userRows
       ELSE /\ userRows' = [userRows EXCEPT ![user_id].tribe_id = NoTribe,
                                            ![user_id].tribal_id_number = "None",
                                            ![user_id].is_verified = FALSE]
            /\ memberResp' = 303
    /\ UNCHANGED notMembers

\* The handlers are coroutines without an await in their bodies: each runs
\* to its end on the event loop before the next starts.
MemberNext ==
    \/ \E req \in Requesters, tribe_id \in TribeChoices, n \in IdNumbers :
            onboarding_tribe(req, tribe_id, n)
    \/ \E req \in Requesters, user_id \in UserIds : admin_approve_membership(req, user_id)
    \/ \E req \in Requesters, user_id \in UserIds : admin_deny_membership(req, user_id)

MemberSpec == Init /\ [][MemberNext]_vars

\* ------------------------------------------------------------------ person names
\* Highest id of a person_names row.
MaxNameId == 3

NameIds == 1..MaxNameId
NameTexts == {"Ann", "Raven"}
\* PersonNamePatch.is_primary: not in the body, true, false, or null.
PatchPrimary == {"unset", "True", "False", "None"}
PatchText == {"unset"} \cup NameTexts
notNames == <<ledgerVars, apprVars, tribeVars, authVars, memberVars, eventVars, pubReq>>

\* db.get(PersonName, name_id)
HasName(name_id) == \E r \in 1..Len(person_names) : person_names[r].id = name_id
NameRow(name_id) == CHOOSE r \in 1..Len(person_names) : person_names[r].id = name_id
NextNameId == IF person_names = <<>> THEN 1 ELSE person_names[Len(person_names)].id + 1

\* query(PersonName).filter(user_id == user_id, <keep>).update({"is_primary": False}):
\* the rows of the user other than the row with id except.
Demoted(rows, user_id, except) ==
    [r \in 1..Len(rows) |->
        IF rows[r].user_id = user_id /\ rows[r].id # except
        THEN [rows[r] EXCEPT !.is_primary = FALSE]
        ELSE rows[r]]

\* A create that adds the new primary name without demoting the old one.
create_person_nameKeeping(user_id, text, is_primary) ==
    /\ IF user_id \notin Users
       THEN /\ nameResp' = 404
            /\ UNCHANGED person_names
       ELSE /\ person_names' =
                  Append(person_names,
                         [id |-> NextNameId, user_id |-> user_id, text |-> text,
                          is_primary |-> is_primary])
            /\ nameResp' = 201
    /\ UNCHANGED notNames

\* POST /users/{user_id}/names
create_person_name(user_id, text, is_primary) ==
    /\ IF user_id \notin Users
       THEN /\ nameResp' = 404
            /\ UNCHANGED person_names
       ELSE /\ person_names' =
                  Append(IF is_primary THEN Demoted(person_names, user_id, 0)
                         ELSE person_names,
                         [id |-> NextNameId, user_id |-> user_id, text |-> text,
                          is_primary |-> is_primary])
            /\ nameResp' = 201
    /\ UNCHANGED notNames

\* PATCH /users/{user_id}/names/{name_id}; is_primary = null breaks the NOT
\* NULL constraint at the commit, which raises and writes nothing (500).
update_person_name(user_id, name_id, text, is_primary) ==
    /\ IF ~HasName(name_id) \/ person_names[NameRow(name_id)].user_id # user_id
       THEN /\ nameResp' = 404
            /\ UNCHANGED person_names
       ELSE IF is_primary = "None"
       THEN /\ nameResp' = 500
            /\ UNCHANGED person_names
       ELSE /\ person_names' =
                  LET rows == IF is_primary = "True"
                              THEN Demoted(person_names, user_id, name_id)
                              ELSE person_names
                      r == NameRow(name_id)
                  IN [rows EXCEPT
                        ![r].text = IF text = "unset" THEN @ ELSE text,
                        ![r].is_primary = IF is_primary = "unset" THEN @
                                          ELSE is_primary = "True"]
            /\ nameResp' = 200
    /\ UNCHANGED notNames

\* DELETE /users/{user_id}/names/{name_id}
delete_person_name(user_id, name_id) ==
    /\ IF ~HasName(name_id) \/ person_names[NameRow(name_id)].user_id # user_id
       THEN /\ nameResp' = 404
            /\ UNCHANGED person_names
       ELSE /\ person_names' = SelectSeq(person_names, LAMBDA row : row.id # name_id)
            /\ nameResp' = 204
    /\ UNCHANGED notNames

\* The person-names endpoints, one request after the other.
NamesNext ==
    \/ \E user_id \in UserIds, text \in NameTexts, is_primary \in BOOLEAN :
            NextNameId <= MaxNameId /\ create_person_name(user_id, text, is_primary)
    \/ \E user_id \in UserIds, name_id \in NameIds, text \in PatchText,
            is_primary \in PatchPrimary :
            update_person_name(user_id, name_id, text, is_primary)
    \/ \E user_id \in UserIds, name_id \in NameIds : delete_person_name(user_id, name_id)

NamesSpec == Init /\ [][NamesNext]_vars

\* ------------------------------------------------------------------ events
\* Latest date drawn (dates are day numbers 1..MaxDate) and highest id of
\* an events row.
MaxDate == 3
MaxEventId == 2

\* end_date = None; a field that is not in the body of a PATCH.
NoDate == 0
Unset == -1
Dates == 1..MaxDate
EventIds == 1..(MaxEventId + 1)
notEvents == <<ledgerVars, apprVars, sess, seedResp, authVars, memberVars, nameVars, pubReq>>

\* db.get(Event, event_id)
HasEvent(event_id) == \E r \in 1..Len(events) : events[r].id = event_id
EventRow(event_id) == CHOOSE r \in 1..Len(events) : events[r].id = event_id
NextEventId == IF events = <<>> THEN 1 ELSE events[Len(events)].id + 1

\* if payload.end_date and payload.end_date < payload.start_date (a date is
\* always truthy, None never)
EndsBeforeStart(sd, ed) == ed # NoDate /\ sd # NoDate /\ ed < sd

\* POST /tribes/{tribe_id}/events
create_event_for_tribe(tribe_id, start_date, end_date) ==
    /\ IF ~IdExists(tribe_id)
       THEN /\ eventResp' = 404
            /\ UNCHANGED events
       ELSE IF EndsBeforeStart(start_date, end_date)
       THEN /\ eventResp' = 400
            /\ UNCHANGED events
       ELSE /\ events' = Append(events,
                  [id |-> NextEventId, tribe_id |-> tribe_id,
                   start_date |-> start_date, end_date |-> end_date])
            /\ eventResp' = 200
    /\ UNCHANGED <<tribes, notEvents>>

\* An update that checks only the dates of the request body, not the date
\* the event already has.
update_eventBodyOnly(event_id, start_date, end_date) ==
    /\ IF ~HasEvent(event_id)
       THEN /\ eventResp' = 404
            /\ UNCHANGED events
       ELSE IF start_date # Unset /\ end_date # Unset /\ EndsBeforeStart(start_date, end_date)
       THEN /\ eventResp' = 400
            /\ UNCHANGED events
       ELSE IF start_date = NoDate
       THEN /\ eventResp' = 500
            /\ UNCHANGED events
       ELSE /\ events' = [events EXCEPT
                  ![EventRow(event_id)].start_date = IF start_date = Unset THEN @ ELSE start_date,
                  ![EventRow(event_id)].end_date = IF end_date = Unset THEN @ ELSE end_date]
            /\ eventResp' = 200
    /\ UNCHANGED <<tribes, notEvents>>

\* PATCH /events/{event_id}: sd and ed are the date of the body, or the
\* event's when the body has none.  start_date = null passes the check and
\* breaks the NOT NULL constraint at the commit, which raises and writes
\* nothing (500).
update_event(event_id, start_date, end_date) ==
    /\ IF ~HasEvent(event_id)
       THEN /\ eventResp' = 404
            /\ UNCHANGED events
       ELSE LET ev == events[EventRow(event_id)]
                sd == IF start_date = Unset THEN ev.start_date ELSE start_date
                ed == IF end_date = Unset THEN ev.end_date ELSE end_date
            IN IF EndsBeforeStart(sd, ed)
               THEN /\ eventResp' = 400
                    /\ UNCHANGED events
               ELSE IF start_date = NoDate
               THEN /\ eventResp' = 500
                    /\ UNCHANGED events
               ELSE /\ events' = [events EXCEPT
                          ![EventRow(event_id)].start_date = sd,
                          ![EventRow(event_id)].end_date = ed]
                    /\ eventResp' = 200
    /\ UNCHANGED <<tribes, notEvents>>

\* DELETE /events/{event_id}
delete_event(event_id) ==
    /\ IF ~HasEvent(event_id)
       THEN /\ eventResp' = 404
            /\ UNCHANGED events
       ELSE /\ events' = SelectSeq(events, LAMBDA row : row.id # event_id)
            /\ eventResp' = 204
    /\ UNCHANGED <<tribes, notEvents>>

\* The events endpoints, one request after the other, for tribes that are
\* created first.
EventNext ==
    \/ \E c \in Callers, name \in TribeNames : NoSessionOpen /\ create_tribe(c, name)
    \/ \E c \in Callers : RowIdsLeft(c) /\ Commit(c)
    \/ \E tribe_id \in TribeIds, start_date \in Dates, end_date \in Dates \cup {NoDate} :
            /\ NoSessionOpen
            /\ NextEventId <= MaxEventId
            /\ create_event_for_tribe(tribe_id, start_date, end_date)
    \/ \E event_id \in EventIds, start_date \in Dates \cup {NoDate, Unset},
            end_date \in Dates \cup {NoDate, Unset} :
            NoSessionOpen /\ update_event(event_id, start_date, end_date)
    \/ \E event_id \in EventIds : NoSessionOpen /\ delete_event(event_id)

EventSpec == Init /\ [][EventNext]_vars

\* ------------------------------------------------------ public endpoints
\* main.tribes: the in-memory demo tribes, by id, with their public_sharing.
DemoTribes ==
    << <<1, [laws |-> TRUE,  events |-> TRUE, members |-> FALSE]>>,
       <<2, [laws |-> FALSE, events |-> TRUE, members |-> FALSE]>>,
       <<3, [laws |-> FALSE, events |-> TRUE, members |-> FALSE]>> >>
\* main.events, main.laws, main.members: the id and tribe_id of each record.
DemoRecords ==
    [events  |-> << [id |-> 1, tribe_id |-> 1], [id |-> 2, tribe_id |-> 1] >>,
     laws    |-> << [id |-> 1, tribe_id |-> 1], [id |-> 2, tribe_id |-> 1] >>,
     members |-> << [id |-> 1, tribe_id |-> 1202], [id |-> 2, tribe_id |-> 195],
                    [id |-> 3, tribe_id |-> 875], [id |-> 4, tribe_id |-> 1203],
                    [id |-> 5, tribe_id |-> 1203] >>]
Sections == {"events", "laws", "members"}
\* Tribe ids a request names: the demo tribes, a tribe that only members
\* point to, and one that nothing points to.
PathTribeIds == {1, 2, 3, 4, 1202, 1203}
notPublic == <<ledgerVars, apprVars, tribeVars, authVars, memberVars, nameVars, eventVars>>

\* tribes.get(tribe_id)
KnownTribe(tribe_id) == \E i \in 1..Len(DemoTribes) : DemoTribes[i][1] = tribe_id
\* tribe.public_sharing.get(section, False)
Shared(tribe_id, section) ==
    LET tribe == DemoTribes[CHOOSE i \in 1..Len(DemoTribes) : DemoTribes[i][1] = tribe_id][2]
    IN IF section = "events" THEN tribe.events
       ELSE IF section = "laws" THEN tribe.laws
       ELSE IF section = "members" THEN tribe.members
       ELSE FALSE

\* A check that finds the tribe and does not look at its public_sharing.
check_permissionOpen(tribe_id, section) ==
    IF ~KnownTribe(tribe_id) THEN 404 ELSE 200

\* check_permission: the status it raises, or 200 when it returns.
check_permission(tribe_id, section) ==
    IF ~KnownTribe(tribe_id) THEN 404
    ELSE IF ~Shared(tribe_id, section) THEN 403
    ELSE 200

\* get_tribe_events, get_tribe_laws, get_tribe_members up to the return of
\* check_permission: an HTTPException ends the request.
CheckSection(c, tribe_id, section) ==
    /\ pubReq[c].pc # "checked"
    /\ LET status == check_permission(tribe_id, section)
       IN pubReq' = [pubReq EXCEPT ![c] =
              [pc |-> IF status = 200 THEN "checked" ELSE "done",
               tribe_id |-> tribe_id, section |-> section,
               status |-> IF status = 200 THEN 0 ELSE status, records |-> <<>>]]
    /\ UNCHANGED notPublic

\* return [e for e in events if e.tribe_id == tribe_id]
ListSection(c) ==
    /\ pubReq[c].pc = "checked"
    /\ pubReq' = [pubReq EXCEPT ![c].pc = "done", ![c].status = 200,
                   ![c].records = SelectSeq(DemoRecords[pubReq[c].section],
                                            LAMBDA rec : rec.tribe_id = pubReq[c].tribe_id)]
    /\ UNCHANGED notPublic

\* The public endpoints, served by the threads of the pool.
PublicNext ==
    \/ \E c \in Callers, tribe_id \in PathTribeIds, section \in Sections :
            CheckSection(c, tribe_id, section)
    \/ \E c \in Callers : ListSection(c)

PublicSpec == Init /\ [][PublicNext]_vars

\* ------------------------------------------------------------------ claims
LogA == AUDIT_LOG["A"]
DoneA == returned["A"]
HashOf(e) == DictGet(e, "hash", EmptyStr)
PrevOf(e) == DictGet(e, "prev_hash", EmptyStr)

\* C1: when N concurrently issued appends have all returned, the ledger
\* holds entries at exactly the sequences 0..N-1, and no two of the appends
\* were given the same sequence.
C1_ConcurrentGapless ==
    AllIdle =>
        /\ DictKeys(LogA) = 0..(Len(DoneA) - 1)
        /\ \A i, j \in 1..Len(DoneA) : i # j => DoneA[i].key # DoneA[j].key

\* C2: the chain never forks: no two stored entries have the same prev_hash.
C2_NoFork ==
    \A i, j \in 1..Len(LogA) : i # j => PrevOf(LogA[i][2]) # PrevOf(LogA[j][2])

\* C3: after any sequence of appends (one call after the other), the entry
\* at index i has sequence i, the first append got sequence 0 and each
\* append got the sequence after the previous one.
C3_SequencesGapless ==
    /\ \A i \in 1..Len(LogA) : LogA[i][1] = i - 1
    /\ \A i \in 1..Len(DoneA) : DoneA[i].key = i - 1
    /\ AllIdle => AUDIT_SEQ["A"] = Len(LogA) /\ Len(DoneA) = Len(LogA)

C3_Witness == AllIdle /\ Len(DoneA) >= 3 /\ Len(LogA) >= 3

\* C4: each stored entry has a prev_hash, equal to the hash of the entry at
\* sequence - 1, and to the genesis value "" at sequence 0.
C4_Linked ==
    \A i \in 1..Len(LogA) : ~LinkBroken(LogA, LogA[i][1])

\* C5: recomputing the hash of a stored entry from its stored fields, at any
\* later time, gives the stored hash.
C5_HashReproducible ==
    \A i \in 1..Len(LogA) : Recomputed(LogA[i][2]) = HashOf(LogA[i][2])

\* C6: after n successful appends to an empty ledger, verify(0, n-1)
\* reports ok: true.
C6_VerifyOk == resp.op = "verify" => resp.ok

\* C7: after one stored field of the entry at sequence k was changed, verify
\* reports a failure at sequence k exactly.
C7_TamperPinpointed ==
    (tampered.key >= 0 /\ resp.op = "verify") =>
        (~resp.ok /\ resp.sequence = tampered.key)

\* C8: two independent ledgers that were appended the same payloads (same
\* items in the same order) at the same clock readings hold the same hashes,
\* position by position, and returned the same hashes.
LogB == AUDIT_LOG["B"]
DoneB == returned["B"]
SameInputs(n) ==
    \A i \in 1..n : DoneA[i].entry = DoneB[i].entry /\ DoneA[i].t = DoneB[i].t
C9_Immutable ==
    [][/\ Len(AUDIT_LOG'["A"]) \in {Len(LogA), Len(LogA) + 1}
       /\ SubSeq(AUDIT_LOG'["A"], 1, Len(LogA)) = LogA]_vars

\* C10: an append that fails because line 18 raised leaves the stored
\* entries and the head as they were before the call: no step of a call
\* from its start up to the raise changes AUDIT_LOG or AUDIT_SEQ.
C10_FailedAppendLeavesStore ==
    [][\A c \in Callers :
          (pc[c] \in {"idle", "l16", "l17", "l18"}
              /\ pc'[c] \in {"l16", "l17", "l18", "raised"})
          => (AUDIT_LOG' = AUDIT_LOG /\ AUDIT_SEQ' = AUDIT_SEQ)]_vars

C10_Witness ==
    \E c \in Callers : pc[c] = "raised" /\ Len(LogA) >= 1 /\ AUDIT_SEQ["A"] = Len(LogA)

\* C11: in every state (between any two steps of an append included) the
\* head agrees with the stored entries: AUDIT_SEQ is the number of stored
\* entries, and one more than the highest stored sequence.
C11_HeadAgrees ==
    /\ AUDIT_SEQ["A"] = Len(LogA)
    /\ \A k \in DictKeys(LogA) : k < AUDIT_SEQ["A"]
    /\ LogA # <<>> => (AUDIT_SEQ["A"] - 1) \in DictKeys(LogA)

\* C12: for every append that has returned, the entry stored at the
\* sequence it was given has the returned hash and the caller's payload,
\* also when other appends ran concurrently.
C12_ReturnMatchesStored ==
    \A i \in 1..Len(DoneA) :
        LET e == DictGet(LogA, DoneA[i].key, <<>>)
        IN /\ HashOf(e) = DoneA[i].h
           /\ PayloadOf(e) = DoneA[i].entry

\* C13: two appends whose payloads have the same keys and values, the same
\* prev_hash and the same clock reading got the same hash, whatever the
\* insertion order of the payloads' keys.
C13_KeyOrderIrrelevant ==
    \A i \in 1..Len(DoneA), j \in 1..Len(DoneB) :
        (/\ DictEq(DoneA[i].entry, DoneB[j].entry)
         /\ DoneA[i].t = DoneB[j].t
         /\ PrevOf(DictGet(LogA, DoneA[i].key, <<>>))
                = PrevOf(DictGet(LogB, DoneB[j].key, <<>>)))
        => DoneA[i].h = DoneB[j].h

\* C14: a step that produces a response of a read path (the listing of
\* audit_log, the listing of list_audit_events, a verification) leaves
\* AUDIT_LOG and AUDIT_SEQ unchanged.
C14_ReadsDoNotMutate ==
    [][(resp' # resp /\ resp'.op \in {"list", "events", "verify"})
          => (AUDIT_LOG' = AUDIT_LOG /\ AUDIT_SEQ' = AUDIT_SEQ)]_vars

C14_Witness ==
    /\ resp.op = "list"
    /\ AUDIT_SEQ["A"] >= 2
    /\ Len(LogA) >= 2
    /\ resp.entries = DictValues(LogA)

\* C15: every approval has its ledger entries: one whose payload describes
\* the draft (tenant_id, actor_id, action, resource) and, once it is
\* decided, one whose payload describes the decision and its reason.
Describes(e, a) ==
    /\ DictGet(e, "tenant_id", <<>>) = Scalar(a.d.tenant_id)
    /\ DictGet(e, "actor_id", <<>>) = Scalar(a.d.actor_id)
    /\ DictGet(e, "action", <<>>) = Scalar(a.d.action)
    /\ DictGet(e, "resource", <<>>) = Scalar(a.d.resource)
DescribesDecision(e, a) ==
    /\ Describes(e, a)
    /\ DictGet(e, "decision", <<>>) = Scalar(a.status)
    /\ DictGet(e, "reason", <<>>) = Scalar(a.decision_reason)
C15_TransitionsAudited ==
    \A i \in 1..Len(APPROVALS) :
        /\ \E k \in 1..Len(LogA) : Describes(LogA[k][2], APPROVALS[i])
        /\ APPROVALS[i].status # "pending" =>
               \E k \in 1..Len(LogA) : DescribesDecision(LogA[k][2], APPROVALS[i])

\* C16: checking a password q against hash_password(p) gives true when
\* q = p and false when q # p, for every salt.
C16_RoundTrip ==
    authResp.op = "verify" =>
        authResp.result = IF authResp.password = authResp.pw THEN "true" ELSE "false"

\* C17: no two tribes share a name, and a seed run that ends directly after
\* a seed run that succeeded inserts 0 tribes and leaves the table unchanged.
TribeNamesUnique ==
    \A r1, r2 \in 1..Len(tribes) : tribes[r1].name = tribes[r2].name => r1 = r2
SeedEnds(c) == sess[c].op = "seed" /\ sess'[c].op = "none"
C17_SeedIdempotent ==
    [][/\ TribeNamesUnique'
       /\ \A c \in Callers :
             (SeedEnds(c) /\ seedResp.op = "seed" /\ seedResp.code = 201)
             => /\ tribes' = tribes
                /\ seedResp' = [op |-> "seed", code |-> 201, inserted |-> 0]]_vars

C17_Witness ==
    /\ seedResp = [op |-> "seed", code |-> 201, inserted |-> 0]
    /\ Len(tribes) > Len(wa_tribes)
    /\ \E r \in 1..Len(tribes) : tribes[r].name = "Wanapum Band"
    /\ \A k \in 1..Len(wa_tribes) : NameExists(wa_tribes[k].name)

\* The check gives true exactly for the passwords with the same HMAC key
\* as p.
SameKeyAccepted ==
    authResp.op = "verify" =>
        authResp.result =
            IF HmacKey(EncodeUtf8(authResp.password)) = HmacKey(EncodeUtf8(authResp.pw))
            THEN "true" ELSE "false"

\* C18: every stored entry has a timestamp field, set by the store, and it
\* is the clock reading that entered the entry's hash.
C18_TimestampStored ==
    \A i \in 1..Len(LogA) :
        LET e == LogA[i][2]
        IN /\ DictHas(e, "timestamp")
           /\ HashOf(e) = HashAt(PrevOf(e), DictWithout(e, OwnKeys \cup {"timestamp"}),
                                 DictGet(e, "timestamp", <<>>))

\* C19: a listing taken after any sequence of appends (none in progress)
\* returns the stored entries, each once, in ascending order of their
\* sequences.
KeyAt(log, i) ==
    CHOOSE k \in DictKeys(log) : Cardinality({j \in DictKeys(log) : j < k}) = i - 1
AscendingEntries(log) == [i \in 1..Len(log) |-> DictGet(log, KeyAt(log, i), <<>>)]
C19_ListsAllAscending ==
    [][(AllIdle /\ resp' # resp /\ resp'.op \in {"list", "events"})
          => resp'.entries = AscendingEntries(LogA)]_vars

\* The listing of audit_log alone returns the stored entries in ascending
\* order.
AuditLogListsAllAscending ==
    [][(resp' # resp /\ resp'.op = "list") => resp'.entries = AscendingEntries(LogA)]_vars

\* C20: every entry of a listing taken while an append runs has its hash
\* and prev_hash, and its prev_hash is the hash of the entry listed before it
\* (the genesis value for the first).
C20_NoTornRead ==
    resp.op = "list" =>
        \A i \in 1..Len(resp.entries) :
            LET e == resp.entries[i]
            IN /\ DictHas(e, "hash")
               /\ DictHas(e, "prev_hash")
               /\ PrevOf(e) = IF i = 1 THEN Genesis ELSE HashOf(resp.entries[i - 1])

\* Every listed entry has its hash and its prev_hash.
ListedEntriesWhole ==
    resp.op = "list" =>
        \A i \in 1..Len(resp.entries) :
            DictHas(resp.entries[i], "hash") /\ DictHas(resp.entries[i], "prev_hash")

\* C21: after an entry was tampered with, lines 16 and 17 of an append
\* never raise, every append that returns has stored its entry with the
\* returned hash, linked to the hash stored before it, and a listing
\* returns the stored entries: only verify reports the violation.
StoredAt(k) == DictGet(LogA, k, <<>>)
C21_ServesAfterTampering ==
    [][tampered.key # -1 =>
          /\ \A c \in Callers :
                /\ pc[c] = "l16" => pc'[c] \in {"l16", "l17"}
                /\ pc[c] = "l17" => pc'[c] \in {"l17", "l18"}
                /\ (pc[c] = "l20" /\ pc'[c] = "idle") =>
                      /\ HashOf(StoredAt(frame[c].key)) = frame[c].h
                      /\ frame[c].key > 0 =>
                            PrevOf(StoredAt(frame[c].key)) = HashOf(StoredAt(frame[c].key - 1))
          /\ (resp' # resp /\ resp'.op = "list") =>
                (Len(resp'.entries) = Len(LogA) /\ AUDIT_LOG' = AUDIT_LOG)]_vars

\* A verification reported the tampering, then an append stored its entry
\* behind the tampered one and a listing returned both.
C21_Witness ==
    /\ tampered = [key |-> 0, field |-> "hash"]
    /\ resp.op = "list"
    /\ Len(resp.entries) = 2
    /\ Len(DoneA) = 2
    /\ PrevOf(StoredAt(1)) = Forged
    /\ VerifyRange(LogA, 0, 1).ok = FALSE

\* C22: no step of an append whose payload cannot be canonicalized (it has
\* a value that is not serializable, or it is not a mapping) changes
\* AUDIT_LOG or AUDIT_SEQ, and the call ends by raising.
Canonicalizable(entry) ==
    IsMapping(entry) /\ \A i \in 1..Len(entry) : IsSerializable(entry[i][2])
C22_InvalidPayloadRejected ==
    [][\A c \in Callers :
          (pc[c] # "idle" /\ ~Canonicalizable(frame[c].entry))
          => /\ AUDIT_LOG' = AUDIT_LOG
             /\ AUDIT_SEQ' = AUDIT_SEQ
             /\ pc'[c] # "l20"]_vars

\* An append whose payload is not a mapping changes nothing: line 18 raises.
NonMappingRejected ==
    [][\A c \in Callers :
          (pc[c] # "idle" /\ ~IsMapping(frame[c].entry))
          => (AUDIT_LOG' = AUDIT_LOG /\ AUDIT_SEQ' = AUDIT_SEQ /\ pc'[c] # "l19")]_vars

\* C23: the entry stored by an append has every item of the caller's
\* payload, with the caller's value, also for the keys hash and prev_hash.
C23_PayloadKept ==
    \A i \in 1..Len(DoneA) :
        \A k \in DictKeys(DoneA[i].entry) :
            DictGet(StoredAt(DoneA[i].key), k, <<>>) = DictGet(DoneA[i].entry, k, <<>>)

\* The payloads without the keys hash and prev_hash are kept as supplied.
PlainPayloadKept ==
    \A i \in 1..Len(DoneA) :
        DictKeys(DoneA[i].entry) \cap OwnKeys = {} =>
            PayloadOf(StoredAt(DoneA[i].key)) = DoneA[i].entry

\* C24: every approval's status is pending, approve or deny, a new approval
\* is pending, a decide call on an approval that is already decided changes
\* no approval, and a decide call that answers 404 or 400 changes none.
C24_DecidedIsFinal ==
    [][/\ \A i \in 1..Len(APPROVALS') : APPROVALS'[i].status \in {"pending", "approve", "deny"}
       /\ \A c \in Callers :
            /\ (apc[c] = "a25" /\ apc'[c] = "a26") =>
                  APPROVALS'[aframe[c].aid].status = "pending"
            /\ (apc[c] \in {"a35", "a36", "a37"} /\ apc'[c] # apc[c]
                    /\ aframe[c].was # "pending") =>
                  APPROVALS' = APPROVALS
       /\ (aresp' # aresp /\ aresp'.code \in {400, 404}) => APPROVALS' = APPROVALS]_vars

\* Every status is pending, approve or deny, and a decide call that answers
\* 404 or 400 changes no approval.
StatusesValid ==
    [][/\ \A i \in 1..Len(APPROVALS') : APPROVALS'[i].status \in {"pending", "approve", "deny"}
       /\ (aresp' # aresp /\ aresp'.code \in {400, 404}) => APPROVALS' = APPROVALS]_vars

\* C25: the id a create_draft call stores its draft at is not the id of an
\* approval that exists: the store of line 25 adds an approval and replaces
\* none.
C25_FreshId ==
    [][\A c \in Callers :
          (apc[c] = "a25" /\ apc'[c] = "a26") =>
              /\ aframe[c].aid > Len(APPROVALS)
              /\ SubSeq(APPROVALS', 1, Len(APPROVALS)) = APPROVALS]_vars

\* C26: a user who is verified was approved by an admin while having the
\* tribe_id they have now.
C26_VerifiedForApprovedTribe ==
    \A u \in Users :
        userRows[u].is_verified => userRows[u].tribe_id \in userRows[u].approved_at

\* C27: each user has at most one name with is_primary = true.
PrimaryNames(u) ==
    {r \in 1..Len(person_names) : person_names[r].user_id = u /\ person_names[r].is_primary}
C27_OnePrimaryName == \A u \in Users : Cardinality(PrimaryNames(u)) <= 1

\* A user with three names, the second of them the primary one, after an
\* update.
C27_Witness ==
    /\ Len(person_names) = 3
    /\ \A r \in 1..3 : person_names[r].user_id = "u1"
    /\ PrimaryNames("u1") = {2}
    /\ nameResp = 200

\* C28: every stored event with an end_date has end_date >= start_date, and
\* a request answered with 400 leaves the events unchanged.
DatesInOrder(rows) ==
    \A r \in 1..Len(rows) :
        rows[r].end_date # NoDate => rows[r].end_date >= rows[r].start_date
C28_EndNotBeforeStart ==
    [][/\ DatesInOrder(events')
       /\ eventResp' = 400 => events' = events]_vars

\* A request was refused with 400 while two events with both dates are
\* stored.
C28_Witness ==
    /\ eventResp = 400
    /\ Len(events) = 2
    /\ events[1].start_date = 2 /\ events[1].end_date = 2
    /\ events[2].start_date = MaxDate /\ events[2].end_date = MaxDate

\* C29: a public tribe endpoint answers 200 with the tribe's records of the
\* section only when the tribe is known and shares the section; for an
\* unknown tribe it answers 404, for a section that is not shared 403, and
\* in both cases it returns no record.
C29_OnlySharedSections ==
    \A c \in Callers :
        LET q == pubReq[c] IN
        q.pc = "done" =>
            /\ q.status = 200 <=> (KnownTribe(q.tribe_id) /\ Shared(q.tribe_id, q.section))
            /\ q.status = 404 <=> ~KnownTribe(q.tribe_id)
            /\ q.status = 403 <=> (KnownTribe(q.tribe_id) /\ ~Shared(q.tribe_id, q.section))
            /\ q.status # 200 => q.records = <<>>
            /\ \A r \in 1..Len(q.records) : q.records[r].tribe_id = q.tribe_id

\* One caller was refused the laws of a tribe that does not share them,
\* while the other was told that the tribe whose members it asked for is
\* unknown.
C29_Witness ==
    /\ pubReq["c1"].pc = "done" /\ pubReq["c1"].status = 403
    /\ pubReq["c1"].tribe_id = 2 /\ pubReq["c1"].section = "laws"
    /\ pubReq["c2"].pc = "done" /\ pubReq["c2"].status = 404
    /\ pubReq["c2"].tribe_id = 1202 /\ pubReq["c2"].section = "members"

\* C30: safe_verify_password never raises, and it returns false for every
\* stored string that is not salt$hash with a hex salt.
InStoredFormat(stored) ==
    /\ Len(Split(stored)) = 2
    /\ IsHex(Split(stored)[1])
    /\ IsHex(Split(stored)[2])
C30_NeverRaises ==
    authResp.op = "verify" =>
        /\ authResp.result # "raises"
        /\ ~InStoredFormat(authResp.stored) => authResp.result = "false"

====
